---- MODULE Spec2Model ----
(***************************************************************************)
(* A model of the Apinator JavaScript client: the Connection state machine *)
(* (src/connection.ts, reconnection and keepalive) and the Apinator client *)
(* on top of it (src/index.ts, channel registry and subscribe handshake).  *)
(*                                                                         *)
(* The JavaScript runs to completion per callback, so every public call,   *)
(* transport callback, timer callback and promise resolution is one action.*)
(* The handlers are written as operators from a "world" record (all the    *)
(* fields of the two objects) to a world record, so that a handler that    *)
(* calls another one is the composition of the two operators, in the order *)
(* of the code.                                                            *)
(***************************************************************************)
EXTENDS Integers, Sequences, FiniteSets, Bags, TLC

VARIABLES
    state,              \* Connection.state
    ws,                 \* Connection.ws: 0 is null, else a transport
    sock,               \* readyState of every transport whose callbacks can still fire
    reconnectAttempts,  \* Connection.reconnectAttempts
    reconnectTimer,     \* the pending timeout behind Connection.reconnectTimer
    activityTimer,      \* the pending timeout behind Connection.activityTimer
    socketId,           \* Connection.socketId
    authEndpoint,       \* whether options.authEndpoint is configured
    chanInst,           \* Apinator.channels: name -> Channel instance (0: absent)
    subscribed,         \* Channel._subscribed of the registered instance
    pendingPresenceSelf,\* Apinator.pendingPresenceSelf
    presence,           \* PresenceChannel.presence and .self of the registered instance
    bindings,           \* Channel.bindings of the registered instance
    globalBindings,     \* Apinator.globalBindings
    authCalls,          \* the fetchAuth promises not yet settled (a bag)
    closeRun,           \* unexpected closes since a transport last opened (observer)
    act                 \* what the last step was and what it emitted

vars == <<state, ws, sock, reconnectAttempts, reconnectTimer, activityTimer,
          socketId, authEndpoint, chanInst, subscribed, pendingPresenceSelf,
          presence, bindings, globalBindings, authCalls, closeRun, act>>

----------------------------------------------------------------------------
\* Bounds of the model.

\* Transports alive at the same time (held, closing or orphaned).
MaxSockets == 2
\* fetchAuth calls in flight at the same time.
MaxAuth == 2

\* Program constants.
MaxReconnectAttempts == 6
BaseDelay == 1000
MaxDelay == 30000
GraceMs == 30000
DefaultActivityTimeout == 120
MsPerSecond == 1000
FatalLo == 4000
FatalHi == 4004

\* Inputs.
ConnectionStates ==
    {"initialized", "connecting", "connected", "unavailable", "disconnected"}
\* A channel name is its prefix and the rest, so that startsWith is a test
\* of the first component.
ChannelNames == {<<"", "news">>, <<"private-", "orders">>, <<"presence-", "room">>}
NoChannel == <<"", "">>
\* socket_id values of connection_established; "" stands for a missing one.
SocketIds == {"", "s1"}
NoSocketId == "null"
\* activity_timeout values of connection_established (seconds).
ActivityTimeouts == {0, 1}
\* code values of realtime:error.
ErrorCodes == {3999, 4000, 4004, 4005}
\* The decoded self identities a valid channel_data can carry.
Selves == {"u1", "u2"}
NoSelf == "none"
\* The user ids of presence members; NotAString stands for an element of a
\* snapshot's id list that is not a string.
MemberIds == {"a", "b"}
NotAString == "#"
\* The user_info objects of presence members; NoInfo is a missing or falsy one.
Infos == {"i1", "i2"}
NoInfo == "none"

\* The callbacks the application binds, and the closure that subscribe()
\* binds to "__internal_trigger".
Callbacks == {"f", "g"}
Hook == "hook"
\* The events callbacks are bound to, on a channel and globally.
MemberEvents == {"realtime:member_added", "realtime:member_removed"}
BoundEvents == {"__internal_trigger", "my-event"} \cup MemberEvents
GlobalEvents == {"my-event"}
\* The event names of trigger(): a prefix and the rest.
TriggerEvents == {<<"client-", "x">>, <<"", "x">>}
NoEvent == <<"", "">>

Sockets == 1..MaxSockets
\* The Channel instances of one name are told apart by a number; one more than
\* the calls in flight is always enough.
Instances == 1..(MaxAuth + 1)

----------------------------------------------------------------------------
\* Helpers.

Min(a, b) == IF a < b THEN a ELSE b

RECURSIVE Pow2(_)
Pow2(n) == IF n = 0 THEN 1 ELSE 2 * Pow2(n - 1)

startsWith(name, prefix) == name[1] = prefix

Includes(ids, id) == \E i \in 1..Len(ids) : ids[i] = id

NoTimer == [on |-> FALSE, kind |-> "none", delay |-> 0, left |-> 0]
Timer(kind, delay) == [on |-> TRUE, kind |-> kind, delay |-> delay, left |-> delay]

\* The decoded data of a frame: null, or an object with a presence object
\* (kind "presence": the types of its count, ids and hash, and their values),
\* or a member payload (kind "info": user_id and user_info), or anything
\* else (kind "other").
NoHash == [i \in MemberIds |-> NoInfo]
NoData ==
    [kind |-> "null", countIsNumber |-> FALSE, idsIsArray |-> FALSE, hashIsObject |-> FALSE,
     count |-> 0, ids |-> <<>>, hash |-> NoHash,
     user_id |-> [type |-> "undefined", val |-> ""], user_info |-> "undefined"]
PresenceData(count, ids, hash) ==
    [NoData EXCEPT !.kind = "presence", !.countIsNumber = TRUE, !.idsIsArray = TRUE,
                   !.hashIsObject = TRUE, !.count = count, !.ids = ids, !.hash = hash]
InfoData(user_id, user_info) ==
    [NoData EXCEPT !.kind = "info", !.user_id = user_id, !.user_info = user_info]

NoMsg == [event |-> "none", channel |-> NoChannel, sid |-> "", timeout |-> 0, code |-> 0,
          data |-> NoData]
Msg(event, channel) ==
    [event |-> event, channel |-> channel, sid |-> "", timeout |-> 0, code |-> 0,
     data |-> NoData]

\* The inbound text frames of a transport. "malformed" is a text that is not
\* JSON; every other one decodes to a Message.
InFrames ==
       {Msg("malformed", NoChannel), Msg("realtime:pong", NoChannel)}
  \cup {[Msg("realtime:connection_established", NoChannel)
            EXCEPT !.sid = s, !.timeout = t] : s \in SocketIds, t \in ActivityTimeouts}
  \cup {[Msg("realtime:error", NoChannel) EXCEPT !.code = c] : c \in ErrorCodes}
  \cup {Msg(e, c) : e \in {"realtime:subscription_succeeded",
                           "realtime:subscription_error", "my-event"},
                    c \in ChannelNames}

\* An outbound frame as written to a transport.
Frame(s, event, channel, auth) ==
    [sock |-> s, event |-> event, channel |-> channel, auth |-> auth]

\* A subscription error as emitted on a channel instance.
AuthError(inst, name, error) ==
    [inst |-> inst, channel |-> name, type |-> "AuthError", error |-> error, status |-> 403]

\* The world: the fields of Connection and Apinator, and what the running
\* step has emitted so far.
World ==
    [state |-> state, ws |-> ws, sock |-> sock,
     reconnectAttempts |-> reconnectAttempts,
     reconnectTimer |-> reconnectTimer, activityTimer |-> activityTimer,
     socketId |-> socketId, authEndpoint |-> authEndpoint,
     chanInst |-> chanInst, subscribed |-> subscribed,
     pendingPresenceSelf |-> pendingPresenceSelf, authCalls |-> authCalls,
     presence |-> presence,
     bindings |-> bindings, globalBindings |-> globalBindings,
     closeRun |-> closeRun,
     throwing |-> {},     \* the callbacks that throw when invoked in this step
     exception |-> FALSE, \* an exception is propagating
     invoked |-> <<>>,    \* the callbacks invoked, in order
     threw |-> "",        \* the message of the Error the call threw
     unexpected |-> -1,   \* this step is unexpected close number ... of its run
     sent |-> <<>>,       \* frames written to a transport
     created |-> 0,       \* the transport constructed
     closed |-> {},       \* transports on which close() was called
     errors |-> <<>>,     \* subscription errors emitted on channels
     started |-> {},      \* channels whose subscribe handshake was started
     contacted |-> {},    \* channels for which the auth gateway was called
     changes |-> <<>>,    \* state-change notifications
     delivered |-> 0,     \* messages handed to the message callback
     returned |-> 0,      \* the Channel instance a subscribe call returned
     constructed |-> 0,   \* the Channel instance a subscribe call constructed
     settled |-> <<>>,    \* the auth call that settled, and how
     frame |-> NoMsg,     \* the inbound frame that was decoded
     call |-> <<>>]       \* the arguments of the trigger call

----------------------------------------------------------------------------
\* PresenceChannel (src/channel.ts).

\* The fields presence and self of a new PresenceChannel.
EmptyPresence == [count |-> 0, ids |-> <<>>, hash |-> NoHash, self |-> NoSelf]

\* PresenceChannel.clearPresenceState.
PresenceChannel_clearPresenceState(p) ==
    [p EXCEPT !.count = 0, !.ids = <<>>, !.hash = NoHash, !.self = NoSelf]

\* isPresenceData of channel.ts.
isPresenceData(data) ==
    /\ data.kind = "presence"
    /\ data.countIsNumber
    /\ data.idsIsArray
    /\ data.hashIsObject

IsString(id) == id # NotAString

\* A snapshot handler that trusts the wire count.
PresenceChannel_handleSubscribedWireCount(p, data, self) ==
    LET p0 == PresenceChannel_clearPresenceState(p)
        p1 == IF self # NoSelf THEN [p0 EXCEPT !.self = self] ELSE p0
    IN  IF isPresenceData(data)
        THEN [p1 EXCEPT !.count = data.count,
                        !.ids = SelectSeq(data.ids, IsString),
                        !.hash = data.hash]
        ELSE p1

\* A snapshot handler that merges the snapshot into the members it has.
PresenceChannel_handleSubscribedMerging(p, data, self) ==
    LET p1 == IF self # NoSelf THEN [p EXCEPT !.self = self] ELSE [p EXCEPT !.self = NoSelf]
    IN  IF isPresenceData(data)
        THEN LET ids == p.ids \o SelectSeq(data.ids, IsString)
             IN  [p1 EXCEPT !.ids = ids,
                            !.hash = [i \in MemberIds |->
                                        IF data.hash[i] # NoInfo THEN data.hash[i] ELSE @[i]],
                            !.count = Len(ids)]
        ELSE PresenceChannel_clearPresenceState(p1)

\* PresenceChannel.handleSubscribed, up to the call of super.handleSubscribed.
PresenceChannel_handleSubscribed(p, data, self) ==
    LET p0 == PresenceChannel_clearPresenceState(p)
        p1 == IF self # NoSelf THEN [p0 EXCEPT !.self = self] ELSE p0
    IN  IF isPresenceData(data)
        THEN LET ids == IF data.idsIsArray THEN data.ids ELSE <<>>
                 hash == IF data.hashIsObject THEN data.hash ELSE NoHash
                 p2 == [p1 EXCEPT !.count = data.count,
                                  !.ids = SelectSeq(ids, IsString),
                                  !.hash = hash]
             IN  [p2 EXCEPT !.count = Len(p2.ids)]
        ELSE p1

\* A member_added handler that appends without looking.
handleMemberAddedAppending(p, info) ==
    LET ids == Append(p.ids, info.user_id.val)
    IN  [p EXCEPT !.ids = ids,
                  !.hash = [@ EXCEPT ![info.user_id.val] = info.user_info],
                  !.count = Len(ids)]

\* PresenceChannel.handleMemberAdded.
handleMemberAdded(p, info) ==
    LET ids == IF ~Includes(p.ids, info.user_id.val)
               THEN Append(p.ids, info.user_id.val) ELSE p.ids
    IN  [p EXCEPT !.ids = ids,
                  !.hash = [@ EXCEPT ![info.user_id.val] = info.user_info],
                  !.count = Len(ids)]

\* PresenceChannel.handleMemberRemoved.
handleMemberRemoved(p, info) ==
    LET Keep(id) == id # info.user_id.val
        ids == SelectSeq(p.ids, Keep)
    IN  [p EXCEPT !.ids = ids,
                  !.hash = [i \in MemberIds |->
                               IF i = info.user_id.val THEN NoInfo ELSE @[i]],
                  !.count = Len(ids)]

\* PresenceChannel.memberCount, getMembers, getMember and me.
memberCount(p) == p.count
HasInfo(p, id) == id \in MemberIds /\ p.hash[id] # NoInfo
getMembers(p) ==
    LET Listed(id) == HasInfo(p, id)
        ids == SelectSeq(p.ids, Listed)
    IN  [i \in 1..Len(ids) |-> [user_id |-> ids[i], user_info |-> p.hash[ids[i]]]]
NoMember == [user_id |-> "", user_info |-> NoInfo]
getMember(p, id) ==
    IF ~HasInfo(p, id) THEN NoMember ELSE [user_id |-> id, user_info |-> p.hash[id]]
me(p) == p.self

----------------------------------------------------------------------------
\* Connection (src/connection.ts) and Apinator (src/index.ts) handlers.

\* A send that writes whatever the transport's readyState is.
sendUnchecked(w, event, channel, auth) ==
    [w EXCEPT !.sent = Append(@, Frame(w.ws, event, channel, auth))]

\* Connection.send: written only to a held transport that is OPEN.
send(w, event, channel, auth) ==
    IF w.ws # 0 /\ w.sock[w.ws] = "OPEN"
    THEN [w EXCEPT !.sent = Append(@, Frame(w.ws, event, channel, auth))]
    ELSE w

\* The bindings of a new Channel, and those subscribe() leaves it with.
NoBindings == [e \in BoundEvents |-> <<>>]
HookBindings == [NoBindings EXCEPT !["__internal_trigger"] = <<Hook>>]

\* Set.add and Set.delete on the callbacks of one event, in insertion order.
SetAdd(cbs, cb) == IF Includes(cbs, cb) THEN cbs ELSE Append(cbs, cb)
SetDelete(cbs, cb) ==
    LET Other(c) == c # cb
    IN  SelectSeq(cbs, Other)

\* The call cb(data) of a dispatch loop. The closure of subscribe() forwards
\* the triggered event as a frame of its channel.
invoke(w, scope, name, event, cb, payload) ==
    LET w1 == [w EXCEPT !.invoked = Append(@, [scope |-> scope, event |-> event, cb |-> cb])]
        w2 == IF cb = Hook THEN send(w1, payload[1] \o payload[2], name, FALSE) ELSE w1
    IN  IF cb \in w.throwing THEN [w2 EXCEPT !.exception = TRUE] ELSE w2

\* A call cb(data) with no try around it.
unguarded(w, scope, name, event, cb, payload) ==
    invoke(w, scope, name, event, cb, payload)

\* try { cb(data) } catch { }
guarded(w, scope, name, event, cb, payload) ==
    [invoke(w, scope, name, event, cb, payload) EXCEPT !.exception = FALSE]

\* for (const cb of callbacks): a propagating exception leaves the loop.
RECURSIVE dispatch(_, _, _, _, _, _)
dispatch(w, scope, name, event, cbs, payload) ==
    IF cbs = <<>> \/ w.exception THEN w
    ELSE dispatch(guarded(w, scope, name, event, Head(cbs), payload),
                  scope, name, event, Tail(cbs), payload)

\* Channel.emit on instance inst of channel name. An instance that is not
\* registered any more has no bindings: unsubscribe cleared them.
emit(w, inst, name, event, payload) ==
    IF inst # 0 /\ w.chanInst[name] = inst /\ event \in BoundEvents
    THEN dispatch(w, "channel", name, event, w.bindings[name][event], payload)
    ELSE w

\* The loop of Apinator.handleMessage over the global bindings of an event.
emitGlobal(w, event) ==
    IF event \in GlobalEvents
    THEN dispatch(w, "global", NoChannel, event, w.globalBindings[event], NoEvent)
    ELSE w

\* Channel.handleError on instance inst of channel name.
handleError(w, inst, name, type, error) ==
    emit([w EXCEPT
            !.subscribed = IF w.chanInst[name] = inst THEN [@ EXCEPT ![name] = FALSE] ELSE @,
            !.errors = Append(@, [AuthError(inst, name, error) EXCEPT !.type = type])],
         inst, name, "realtime:subscription_error", NoEvent)

\* Apinator.clearPresenceState.
clearPresenceState(w) ==
    [w EXCEPT !.pendingPresenceSelf = [n \in ChannelNames |-> NoSelf],
              !.presence = [n \in ChannelNames |->
                              IF w.chanInst[n] # 0 /\ startsWith(n, "presence-")
                              THEN PresenceChannel_clearPresenceState(@[n])
                              ELSE @[n]]]

\* Apinator.sendSubscribe up to its await: the channel is the registered
\* instance of name.
sendSubscribe(w, name) ==
    LET w1 == [w EXCEPT !.started = @ \cup {name}]
        inst == w.chanInst[name]
    IN  IF startsWith(name, "private-") \/ startsWith(name, "presence-")
        THEN IF ~w1.authEndpoint
             THEN handleError(w1, inst, name, "AuthError", "No auth endpoint configured")
             ELSE IF w1.socketId \in {NoSocketId, ""}
             THEN handleError(w1, inst, name, "AuthError", "Not connected")
             ELSE [w1 EXCEPT
                     !.contacted = @ \cup {name},
                     !.authCalls = @ (+) SetToBag({[name |-> name, inst |-> inst,
                                                    sid |-> w1.socketId]})]
        ELSE send(w1, "realtime:subscribe", name, FALSE)

\* The loop of Apinator.handleStateChange over the registered channels.
RECURSIVE sendSubscribeAll(_, _)
sendSubscribeAll(w, names) ==
    IF names = {} THEN w
    ELSE LET n == CHOOSE x \in names : TRUE
         IN  sendSubscribeAll(sendSubscribe(w, n), names \ {n})

\* A state-change handler that subscribes nothing on connected.
handleStateChangeSilent(w, prev, curr) ==
    IF \/ (prev = "connected" /\ curr = "connecting")
       \/ curr = "disconnected"
       \/ curr = "unavailable"
    THEN clearPresenceState(w) ELSE w

\* A state-change handler that keeps the presence state on unavailable.
handleStateChangeKeepsOnUnavailable(w, prev, curr) ==
    LET w1 == IF \/ (prev = "connected" /\ curr = "connecting")
                 \/ curr = "disconnected"
              THEN clearPresenceState(w) ELSE w
    IN  IF curr = "connected"
        THEN sendSubscribeAll(w1, {n \in ChannelNames : w1.chanInst[n] # 0})
        ELSE w1

\* Apinator.handleStateChange.
handleStateChange(w, prev, curr) ==
    LET w1 == IF \/ (prev = "connected" /\ curr = "connecting")
                 \/ curr = "disconnected"
                 \/ curr = "unavailable"
              THEN clearPresenceState(w) ELSE w
    IN  IF curr = "connected"
        THEN sendSubscribeAll(w1, {n \in ChannelNames : w1.chanInst[n] # 0})
        ELSE w1

\* Connection.setState.
setState(w, s) ==
    LET prev == w.state
        w1 == [w EXCEPT !.state = s]
    IN  IF prev # s
        THEN handleStateChange([w1 EXCEPT !.changes = Append(@, <<prev, s>>)], prev, s)
        ELSE w1

\* Connection.clearTimers.
clearTimers(w) ==
    [w EXCEPT !.reconnectTimer = NoTimer, !.activityTimer = NoTimer]

\* A backoff that doubles without the 30 s ceiling.
BackoffDelayUncapped(attempts) == BaseDelay * Pow2(attempts)

\* The delay of Connection.handleDisconnect.
BackoffDelay(attempts) == Min(BaseDelay * Pow2(attempts), MaxDelay)

\* A close handler that does not look at the disconnected state.
handleDisconnectAlways(w) ==
    LET w1 == clearTimers([w EXCEPT !.ws = 0])
    IN  IF w1.reconnectAttempts < MaxReconnectAttempts
        THEN LET w2 == setState(w1, "connecting")
             IN  [w2 EXCEPT
                    !.reconnectAttempts = @ + 1,
                    !.reconnectTimer = Timer("reconnect", BackoffDelay(w2.reconnectAttempts))]
        ELSE setState(w1, "unavailable")

\* Connection.handleDisconnect.
handleDisconnect(w) ==
    LET w1 == clearTimers([w EXCEPT !.ws = 0])
    IN  IF w1.state = "disconnected" THEN w1
        ELSE IF w1.reconnectAttempts < MaxReconnectAttempts
        THEN LET w2 == setState(w1, "connecting")
             IN  [w2 EXCEPT
                    !.reconnectAttempts = @ + 1,
                    !.reconnectTimer = Timer("reconnect", BackoffDelay(w2.reconnectAttempts))]
        ELSE setState(w1, "unavailable")

\* WebSocket.close(): the closing handshake starts, onclose fires later.
wsClose(w, t) ==
    [w EXCEPT !.sock = [@ EXCEPT ![t] = "CLOSING"], !.closed = @ \cup {t}]

\* Connection.disconnect.
disconnect(w) ==
    LET w1 == setState(clearTimers(w), "disconnected")
    IN  IF w1.ws # 0 THEN [wsClose(w1, w1.ws) EXCEPT !.ws = 0] ELSE w1

FreeSockets(w) == {t \in Sockets : w.sock[t] = "NONE"}

\* A connect that does not look at the state.
connectAlways(w, ok) ==
    LET w1 == setState(w, "connecting")
    IN  IF ok
        THEN LET t == CHOOSE x \in FreeSockets(w1) :
                           \A y \in FreeSockets(w1) : x <= y
             IN  [w1 EXCEPT !.ws = t, !.created = t,
                            !.sock = [@ EXCEPT ![t] = "CONNECTING"]]
        ELSE handleDisconnect(w1)

\* Connection.connect; ok tells whether new WebSocket(url) returned.
connect(w, ok) ==
    IF w.state = "connected" \/ w.state = "connecting" THEN w
    ELSE LET w1 == setState(w, "connecting")
         IN  IF ok
             THEN LET t == CHOOSE x \in FreeSockets(w1) :
                                \A y \in FreeSockets(w1) : x <= y
                  IN  [w1 EXCEPT !.ws = t, !.created = t,
                                 !.sock = [@ EXCEPT ![t] = "CONNECTING"]]
             ELSE handleDisconnect(w1)

\* Connection.resetActivityTimer.
resetActivityTimer(w, timeoutSeconds) ==
    [w EXCEPT !.activityTimer = Timer("activity", timeoutSeconds * MsPerSecond)]

\* A payload test that lets an array pass as user_info.
isPresenceInfoArrays(data) ==
    /\ data.kind = "info"
    /\ data.user_id.type = "string"
    /\ data.user_id.val # ""
    /\ data.user_info \notin {"undefined", "null"}
    /\ data.user_info \notin {"string"}

\* isPresenceInfo and isPresenceMemberRemovedData of index.ts.
isPresenceInfo(data) ==
    /\ data.kind = "info"
    /\ data.user_id.type = "string"
    /\ data.user_id.val # ""
    /\ data.user_info \notin {"undefined", "null"}
    /\ data.user_info \notin {"string"}
    /\ data.user_info # "array"

isPresenceMemberRemovedData(data) ==
    /\ data.kind = "info"
    /\ data.user_id.type = "string"
    /\ data.user_id.val # ""

\* The second half of Apinator.handleMessage: the routing of a decoded frame
\* to its channel.
route(w1, msg) ==
    LET name == msg.channel
        inst == w1.chanInst[name]
        isPresence == startsWith(name, "presence-")
    IN  IF name = NoChannel THEN w1
        ELSE IF w1.chanInst[name] = 0 THEN w1
        ELSE IF msg.event = "realtime:subscription_succeeded"
        THEN IF isPresence
             THEN [emit([w1 EXCEPT
                           !.presence = [@ EXCEPT ![name] =
                              PresenceChannel_handleSubscribed(@, msg.data,
                                                               w1.pendingPresenceSelf[name])],
                           !.subscribed = [@ EXCEPT ![name] = TRUE]],
                        inst, name, msg.event, NoEvent)
                     EXCEPT !.pendingPresenceSelf = [@ EXCEPT ![name] = NoSelf]]
             ELSE emit([w1 EXCEPT !.subscribed = [@ EXCEPT ![name] = TRUE]],
                       inst, name, msg.event, NoEvent)
        ELSE IF msg.event = "realtime:subscription_error"
        THEN LET w2 == [w1 EXCEPT !.pendingPresenceSelf = [@ EXCEPT ![name] = NoSelf]]
                 w3 == IF isPresence
                       THEN [w2 EXCEPT !.presence =
                               [@ EXCEPT ![name] = PresenceChannel_clearPresenceState(@)]]
                       ELSE w2
             IN  handleError(w3, w3.chanInst[name], name, "ServerError", "server")
        ELSE IF msg.event = "realtime:member_added" /\ isPresence
        THEN IF ~isPresenceInfo(msg.data) THEN w1
             ELSE emit([w1 EXCEPT !.presence =
                                  [@ EXCEPT ![name] = handleMemberAdded(@, msg.data)]],
                       inst, name, msg.event, NoEvent)
        ELSE IF msg.event = "realtime:member_removed" /\ isPresence
        THEN IF ~isPresenceMemberRemovedData(msg.data) THEN w1
             ELSE emit([w1 EXCEPT !.presence =
                                  [@ EXCEPT ![name] = handleMemberRemoved(@, msg.data)]],
                       inst, name, msg.event, NoEvent)
        ELSE emit(w1, inst, name, msg.event, NoEvent)

\* A handleMessage that drops the frame of an unregistered channel before
\* the global callbacks see it.
Apinator_handleMessageChannelFirst(w, msg) ==
    LET w0 == [w EXCEPT !.delivered = @ + 1]
        w1 == emitGlobal(w0, msg.event)
    IN  IF msg.channel # NoChannel /\ w.chanInst[msg.channel] = 0 THEN w0
        ELSE IF w1.exception THEN w1 ELSE route(w1, msg)

\* Apinator.handleMessage: the global callbacks of the frame's event, then
\* the frame's channel.
Apinator_handleMessage(w, msg) ==
    LET w1 == emitGlobal([w EXCEPT !.delivered = @ + 1], msg.event)
    IN  IF w1.exception THEN w1 ELSE route(w1, msg)

\* A range test that leaves out the upper end.
IsFatalBelowUpper(code) == code >= FatalLo /\ code < FatalHi

\* The range test of Connection.handleMessage on a realtime:error code.
IsFatal(code) == code >= FatalLo /\ code <= FatalHi

\* A handleMessage that takes the activity timeout as the frame gives it.
Connection_handleMessageNoDefault(w, msg) ==
    IF msg.event = "realtime:connection_established"
    THEN LET w1 == setState([w EXCEPT !.socketId = msg.sid], "connected")
         IN  Apinator_handleMessage(resetActivityTimer(w1, msg.timeout), msg)
    ELSE IF msg.event = "realtime:error" /\ IsFatal(msg.code)
    THEN disconnect(w)
    ELSE Apinator_handleMessage(w, msg)

\* Connection.handleMessage.
Connection_handleMessage(w, msg) ==
    IF msg.event = "realtime:connection_established"
    THEN LET timeout == IF msg.timeout # 0 THEN msg.timeout ELSE DefaultActivityTimeout
             w1 == setState([w EXCEPT !.socketId = msg.sid], "connected")
         IN  Apinator_handleMessage(resetActivityTimer(w1, timeout), msg)
    ELSE IF msg.event = "realtime:error" /\ IsFatal(msg.code)
    THEN disconnect(w)
    ELSE Apinator_handleMessage(w, msg)

\* An onmessage that hands every text to handleMessage.
onmessageUnchecked(w, msg) == Connection_handleMessage(w, msg)

\* ws.onmessage: a text that is not JSON is ignored.
onmessage(w, msg) ==
    IF msg.event = "malformed" THEN w ELSE Connection_handleMessage(w, msg)

\* The channel_data of an auth response: absent, a text that is not JSON, or
\* an object whose user_id and user_info have these types and values.
UserIds == {[type |-> "number", val |-> ""], [type |-> "string", val |-> ""]}
           \cup {[type |-> "string", val |-> u] : u \in Selves}
UserInfos == {"null", "string", "object", "array"}
NoChannelData ==
    [present |-> FALSE, json |-> FALSE,
     user_id |-> [type |-> "undefined", val |-> ""], user_info |-> "undefined"]
ChannelDatas ==
    {NoChannelData, [NoChannelData EXCEPT !.present = TRUE]}
    \cup {[present |-> TRUE, json |-> TRUE, user_id |-> u, user_info |-> i] :
            u \in UserIds, i \in UserInfos}
\* The HTTP status of the gateway's response: 2xx, or the status of a
\* response that fetchAuth turns into a rejection.
StatusOk == 200
RejectedStatuses == {500}
ClientSideStatus == 403
\* How a fetchAuth promise settles: rejected, or resolved with an AuthResponse.
AuthOutcomes ==
    {[ok |-> FALSE, status |-> st, channel_data |-> NoChannelData] : st \in RejectedStatuses}
    \cup {[ok |-> TRUE, status |-> StatusOk, channel_data |-> cd] : cd \in ChannelDatas}

\* A decoder that takes an array for a user_info object.
parsePresenceSelfArrays(channelData) ==
    IF ~channelData.json THEN NoSelf
    ELSE IF \/ channelData.user_id.type # "string"
            \/ channelData.user_id.val = ""
            \/ channelData.user_info \in {"undefined", "null"}
            \/ channelData.user_info \notin {"object", "array"}
    THEN NoSelf
    ELSE channelData.user_id.val

\* parsePresenceSelf: the self identity (its user_id), or NoSelf for null.
parsePresenceSelf(channelData) ==
    IF ~channelData.json THEN NoSelf
    ELSE IF \/ channelData.user_id.type # "string"
            \/ channelData.user_id.val = ""
            \/ channelData.user_info \in {"undefined", "null"}
            \/ channelData.user_info \notin {"object", "array"}
            \/ channelData.user_info = "array"
    THEN NoSelf
    ELSE channelData.user_id.val

dropPending(w, name) ==
    [w EXCEPT !.pendingPresenceSelf = [@ EXCEPT ![name] = NoSelf]]

\* Apinator.sendSubscribe after its await, for the call of channel instance
\* call.inst that settled as outcome.
sendSubscribeResume(w, call, outcome) ==
    LET name == call.name
        cd == outcome.channel_data
    IN  IF ~outcome.ok
        THEN handleError(dropPending(w, name), call.inst, name, "AuthError", "rejected")
        ELSE IF startsWith(name, "presence-")
        THEN IF ~cd.present
             THEN handleError(dropPending(w, name), call.inst, name, "AuthError",
                              "channel_data required for presence channels")
             ELSE IF parsePresenceSelf(cd) = NoSelf
             THEN handleError(dropPending(w, name), call.inst, name, "AuthError",
                              "invalid channel_data")
             ELSE send([w EXCEPT !.pendingPresenceSelf =
                                    [@ EXCEPT ![name] = parsePresenceSelf(cd)]],
                       "realtime:subscribe", name, TRUE)
        ELSE send(w, "realtime:subscribe", name, TRUE)

\* The instance numbers of name that no pending call refers to any more.
FreeInstances(w, name) ==
    {i \in Instances : \A c \in BagToSet(w.authCalls) : c.name = name => c.inst # i}

\* A subscribe that does not look the name up before it constructs.
subscribeUnchecked(w, name) ==
    LET i == CHOOSE x \in FreeInstances(w, name) :
                   \A y \in FreeInstances(w, name) : x <= y
        w1 == [w EXCEPT !.chanInst = [@ EXCEPT ![name] = i],
                        !.subscribed = [@ EXCEPT ![name] = FALSE],
                        !.presence = [@ EXCEPT ![name] = EmptyPresence],
                        !.bindings = [@ EXCEPT ![name] = HookBindings],
                        !.returned = i, !.constructed = i]
    IN  IF w1.state = "connected" THEN sendSubscribe(w1, name) ELSE w1

\* Apinator.subscribe.
subscribe(w, name) ==
    IF w.chanInst[name] # 0 THEN [w EXCEPT !.returned = w.chanInst[name]]
    ELSE LET i == CHOOSE x \in FreeInstances(w, name) :
                        \A y \in FreeInstances(w, name) : x <= y
             w1 == [w EXCEPT !.chanInst = [@ EXCEPT ![name] = i],
                             !.subscribed = [@ EXCEPT ![name] = FALSE],
                             !.presence = [@ EXCEPT ![name] = EmptyPresence],
                             !.bindings = [@ EXCEPT ![name] = HookBindings],
                             !.returned = i, !.constructed = i]
         IN  IF w1.state = "connected" THEN sendSubscribe(w1, name) ELSE w1

\* An unsubscribe that leaves the pending self identity of the name.
unsubscribeKeepsPending(w, name) ==
    IF w.chanInst[name] = 0 THEN w
    ELSE LET w1 == send(w, "realtime:unsubscribe", name, FALSE)
             w2 == IF startsWith(name, "presence-")
                   THEN [w1 EXCEPT !.presence =
                           [@ EXCEPT ![name] = PresenceChannel_clearPresenceState(@)]]
                   ELSE w1
         IN  [w2 EXCEPT !.bindings = [@ EXCEPT ![name] = NoBindings],
                        !.chanInst = [@ EXCEPT ![name] = 0],
                        !.subscribed = [@ EXCEPT ![name] = FALSE]]

\* Apinator.unsubscribe.
unsubscribe(w, name) ==
    IF w.chanInst[name] = 0 THEN w
    ELSE LET w1 == dropPending(send(w, "realtime:unsubscribe", name, FALSE), name)
             w2 == IF startsWith(name, "presence-")
                   THEN [w1 EXCEPT !.presence =
                           [@ EXCEPT ![name] = PresenceChannel_clearPresenceState(@)]]
                   ELSE w1
         IN  [w2 EXCEPT !.bindings = [@ EXCEPT ![name] = NoBindings],
                        !.chanInst = [@ EXCEPT ![name] = 0],
                        !.subscribed = [@ EXCEPT ![name] = FALSE]]

\* The Error a call throws.
throw(w, message) == [w EXCEPT !.threw = message, !.exception = TRUE]

\* Channel.trigger on the registered instance of name.
Channel_trigger(w, name, event) ==
    IF ~startsWith(event, "client-")
    THEN throw(w, "Client events must be prefixed with client-")
    ELSE IF ~startsWith(name, "private-") /\ ~startsWith(name, "presence-")
    THEN throw(w, "Client events can only be triggered on private or presence channels")
    ELSE emit(w, w.chanInst[name], name, "__internal_trigger", event)

\* Channel.trigger on an instance of name that unsubscribe() has discarded.
Channel_triggerStale(w, inst, name, event) ==
    IF ~startsWith(event, "client-")
    THEN throw(w, "Client events must be prefixed with client-")
    ELSE IF ~startsWith(name, "private-") /\ ~startsWith(name, "presence-")
    THEN throw(w, "Client events can only be triggered on private or presence channels")
    ELSE emit(w, inst, name, "__internal_trigger", event)

\* A trigger that does not wait for the subscription to be confirmed.
triggerUnconfirmed(w, name, event) ==
    IF ~startsWith(event, "client-")
    THEN throw(w, "Client events must be prefixed with client-")
    ELSE IF w.chanInst[name] = 0
    THEN throw(w, "is not subscribed")
    ELSE Channel_trigger(w, name, event)

\* Apinator.trigger.
trigger(w, name, event) ==
    IF ~startsWith(event, "client-")
    THEN throw(w, "Client events must be prefixed with client-")
    ELSE IF w.chanInst[name] = 0
    THEN throw(w, "is not subscribed")
    ELSE IF ~w.subscribed[name]
    THEN throw(w, "is not yet subscribed")
    ELSE Channel_trigger(w, name, event)

\* Channel.bind, Channel.unbind and Channel.unbindAll on the registered
\* instance of name; NoCallback is an omitted callback argument.
NoCallback == "undefined"
Channel_bind(w, name, event, cb) ==
    [w EXCEPT !.bindings = [@ EXCEPT ![name] = [@ EXCEPT ![event] = SetAdd(@, cb)]]]
Channel_unbind(w, name, event, cb) ==
    [w EXCEPT !.bindings = [@ EXCEPT ![name] =
        [@ EXCEPT ![event] = IF cb = NoCallback THEN <<>> ELSE SetDelete(@, cb)]]]
unbindAll(w, name) ==
    [w EXCEPT !.bindings = [@ EXCEPT ![name] = NoBindings]]

\* Apinator.bind and Apinator.unbind.
Apinator_bind(w, event, cb) ==
    [w EXCEPT !.globalBindings = [@ EXCEPT ![event] = SetAdd(@, cb)]]
Apinator_unbind(w, event, cb) ==
    [w EXCEPT !.globalBindings =
        [@ EXCEPT ![event] = IF cb = NoCallback THEN <<>> ELSE SetDelete(@, cb)]]

----------------------------------------------------------------------------
\* The state machine.

\* What a step leaves for inspection: which kind of step it was, what it
\* emitted and, of its inputs, the auth call that settled.
Act(name, w) ==
    [name |-> name,
     sent |-> w.sent, created |-> w.created, closed |-> w.closed,
     errors |-> w.errors, started |-> w.started, contacted |-> w.contacted,
     changes |-> w.changes, delivered |-> w.delivered, returned |-> w.returned,
     constructed |-> w.constructed, unexpected |-> w.unexpected,
     settled |-> w.settled, frame |-> w.frame, call |-> w.call,
     throwing |-> w.throwing, exception |-> w.exception,
     invoked |-> w.invoked, threw |-> w.threw]

\* The step leaves the program in world w.
Commit(name, w) ==
    /\ BagCardinality(w.authCalls) <= MaxAuth
    /\ state' = w.state
    /\ ws' = w.ws
    /\ sock' = w.sock
    /\ reconnectAttempts' = w.reconnectAttempts
    /\ reconnectTimer' = w.reconnectTimer
    /\ activityTimer' = w.activityTimer
    /\ socketId' = w.socketId
    /\ authEndpoint' = w.authEndpoint
    /\ chanInst' = w.chanInst
    /\ subscribed' = w.subscribed
    /\ pendingPresenceSelf' = w.pendingPresenceSelf
    /\ presence' = w.presence
    /\ bindings' = w.bindings
    /\ globalBindings' = w.globalBindings
    /\ authCalls' = w.authCalls
    /\ closeRun' = w.closeRun
    /\ act' = Act(name, w)

Init ==
    /\ state = "initialized"
    /\ ws = 0
    /\ sock = [t \in Sockets |-> "NONE"]
    /\ reconnectAttempts = 0
    /\ reconnectTimer = NoTimer
    /\ activityTimer = NoTimer
    /\ socketId = NoSocketId
    /\ authEndpoint \in BOOLEAN
    /\ chanInst = [n \in ChannelNames |-> 0]
    /\ subscribed = [n \in ChannelNames |-> FALSE]
    /\ pendingPresenceSelf = [n \in ChannelNames |-> NoSelf]
    /\ presence = [n \in ChannelNames |-> EmptyPresence]
    /\ bindings = [n \in ChannelNames |-> NoBindings]
    /\ globalBindings = [e \in GlobalEvents |-> <<>>]
    /\ authCalls = EmptyBag
    /\ closeRun = 0
    /\ act = Act("init", World)

\* The observer's count of the unexpected closes of a run; it stops counting
\* one past the ceiling.
noteUnexpected(w) ==
    [w EXCEPT !.unexpected = w.closeRun,
              !.closeRun = Min(@ + 1, MaxReconnectAttempts + 1)]

\* client.connect(); ok tells whether the WebSocket constructor returns
Connect(ok) ==
    /\ (ok /\ state \notin {"connected", "connecting"}) => FreeSockets(World) # {}
    /\ Commit("connect",
              connect(IF ~ok /\ state \notin {"connected", "connecting"}
                      THEN noteUnexpected(World) ELSE World, ok))

\* client.disconnect()
Disconnect ==
    Commit("disconnect", disconnect(World))

\* ws.onopen of transport t
OnOpen(t) ==
    /\ sock[t] = "CONNECTING"
    /\ Commit("onopen",
              [World EXCEPT !.sock = [@ EXCEPT ![t] = "OPEN"], !.reconnectAttempts = 0,
                            !.closeRun = 0])

\* ws.onmessage of transport t: messages are delivered only while it is OPEN
OnMessage(t, m) ==
    /\ sock[t] = "OPEN"
    /\ Commit("onmessage", onmessage([World EXCEPT !.frame = m], m))

\* ws.onmessage of transport t while the callbacks in thr throw
Dispatch(t, m, thr) ==
    /\ sock[t] = "OPEN"
    /\ Commit("onmessage", onmessage([World EXCEPT !.frame = m, !.throwing = thr], m))

\* ws.onclose of transport t: fires once, whoever closed it
OnClose(t) ==
    /\ sock[t] # "NONE"
    /\ Commit("onclose",
              handleDisconnect([(IF state # "disconnected" THEN noteUnexpected(World)
                                 ELSE World)
                                   EXCEPT !.sock = [@ EXCEPT ![t] = "NONE"]]))

\* The callback of the reconnect timeout.
ReconnectTimerFires ==
    /\ reconnectTimer.on /\ reconnectTimer.left = 0
    /\ FreeSockets(World) # {}
    /\ Commit("reconnectTimer",
              connect([World EXCEPT !.reconnectTimer = NoTimer], TRUE))

\* The callback of the activity timeout: ping, and arm the grace timeout.
ActivityTimerFires ==
    /\ activityTimer.on /\ activityTimer.kind = "activity" /\ activityTimer.left = 0
    /\ Commit("activityTimer",
              [send(World, "realtime:ping", NoChannel, FALSE)
                  EXCEPT !.activityTimer = Timer("grace", GraceMs)])

\* The callback of the grace timeout: close the held transport.
GraceTimerFires ==
    /\ activityTimer.on /\ activityTimer.kind = "grace" /\ activityTimer.left = 0
    /\ Commit("graceTimer",
              LET w == [World EXCEPT !.activityTimer = NoTimer]
              IN  IF w.ws # 0 THEN wsClose(w, w.ws) ELSE w)

PendingTimers == {tm \in {reconnectTimer, activityTimer} : tm.on}
Elapse(tm, d) == IF tm.on THEN [tm EXCEPT !.left = @ - d] ELSE tm

\* d milliseconds pass with no callback running; a due timeout fires first.
Tick(d) ==
    /\ PendingTimers # {}
    /\ d > 0
    /\ \A tm \in PendingTimers : d <= tm.left
    /\ Commit("tick",
              [World EXCEPT !.reconnectTimer = Elapse(@, d),
                            !.activityTimer = Elapse(@, d)])

\* The time steps: one unit, or all the time to the next timeout.
\* (One unit is taken only from the instant a timeout was armed, so that a
\* callback can run at the arming, one unit later, or at a deadline.)
TickSteps ==
    IF PendingTimers = {} THEN {}
    ELSE {d \in {tm.left : tm \in PendingTimers} : \A tm \in PendingTimers : d <= tm.left}
         \cup (IF \A tm \in PendingTimers : tm.left = tm.delay THEN {BaseDelay} ELSE {})

\* client.subscribe(n)
Subscribe(n) ==
    /\ Commit("subscribe", subscribe(World, n))

\* client.unsubscribe(n)
Unsubscribe(n) ==
    Commit("unsubscribe", unsubscribe(World, n))

\* client.trigger(n, e, data)
Trigger(n, e) ==
    Commit("trigger", trigger([World EXCEPT !.call = <<n, e>>], n, e))

\* channel.trigger(e, data) on the registered instance of n
ChannelTrigger(n, e) ==
    /\ chanInst[n] # 0
    /\ Commit("channelTrigger", Channel_trigger([World EXCEPT !.call = <<n, e>>], n, e))

\* channel.trigger(e, data) on a Channel of n that the application kept
\* after unsubscribe(n)
StaleTrigger(n, e) ==
    \E i \in Instances \ {chanInst[n]} :
        Commit("staleTrigger",
               Channel_triggerStale([World EXCEPT !.call = <<n, e>>], i, n, e))

\* client.channel(n).bind(e, cb), .unbind(e, cb), .unbind(e) and .unbindAll()
Bind(n, e, cb) ==
    /\ chanInst[n] # 0
    /\ Commit("bind", Channel_bind(World, n, e, cb))

Unbind(n, e, cb) ==
    /\ chanInst[n] # 0
    /\ Commit("unbind", Channel_unbind(World, n, e, cb))

UnbindAll(n) ==
    /\ chanInst[n] # 0
    /\ Commit("unbindAll", unbindAll(World, n))

\* client.bind(e, cb), client.unbind(e, cb) and client.unbind(e)
GlobalBind(e, cb) ==
    Commit("globalBind", Apinator_bind(World, e, cb))

GlobalUnbind(e, cb) ==
    Commit("globalUnbind", Apinator_unbind(World, e, cb))

\* A channel_data that decodes to a self identity: a JSON object with a
\* non-empty string user_id and an object, not an array, as user_info.
ValidSelf(cd) ==
    /\ cd.present /\ cd.json
    /\ cd.user_id.type = "string" /\ cd.user_id.val # ""
    /\ cd.user_info = "object"

\* A fetchAuth promise settles and sendSubscribe resumes.
AuthSettles(call, outcome) ==
    /\ BagIn(call, authCalls)
    /\ Commit("authSettles",
              sendSubscribeResume([World EXCEPT !.authCalls = @ (-) SetToBag({call}),
                                                !.settled = <<call, outcome>>],
                                  call, outcome))

\* The steps of the connection alone: calls, transport callbacks, timeouts
\* and the passing of time, with the frames the connection itself decodes.
ConnFrames ==
    {m \in InFrames : /\ m.channel = NoChannel
                     /\ m.event = "realtime:connection_established" => m.sid # ""}
     \cup {Msg("my-event", <<"", "news">>)}

NextConn ==
    \/ \E ok \in BOOLEAN : Connect(ok)
    \/ Disconnect
    \/ \E t \in Sockets : OnOpen(t)
    \/ \E t \in Sockets, m \in ConnFrames : OnMessage(t, m)
    \/ \E t \in Sockets : OnClose(t)
    \/ ReconnectTimerFires
    \/ ActivityTimerFires
    \/ GraceTimerFires
    \/ \E d \in TickSteps : Tick(d)

InitConn == Init /\ ~authEndpoint

\* The connection with its timers, no channel registered.
SpecConn == InitConn /\ [][NextConn]_vars

\* The steps of the subscription protocol: the calls of the registry, the
\* frames that establish a connection or answer a subscribe, the settling of
\* auth calls, and transports that are constructed, open and close. No time
\* passes, so no timeout fires.
EstablishedFrames(sids) ==
    {m \in InFrames : /\ m.event = "realtime:connection_established"
                      /\ m.timeout = 1 /\ m.sid \in sids}

AnswerFrames(names) ==
    {m \in InFrames : /\ m.event \in {"realtime:subscription_succeeded",
                                       "realtime:subscription_error"}
                      /\ m.channel \in names}

NextRegistry(names, frames, outcomes, solo) ==
    \/ (solo => \A t \in Sockets : sock[t] = "NONE") /\ Connect(TRUE)
    \/ Disconnect
    \/ \E t \in Sockets : OnOpen(t)
    \/ \E t \in Sockets, m \in frames : OnMessage(t, m)
    \/ \E t \in Sockets : sock[t] \in {"OPEN", "CLOSING"} /\ OnClose(t)
    \/ \E n \in names : Subscribe(n)
    \/ \E n \in names : Unsubscribe(n)
    \/ \E c \in BagToSet(authCalls), o \in outcomes : AuthSettles(c, o)

\* The registry with a public and a private channel and an auth endpoint;
\* the application may connect again while an old transport is still closing.
InitSub == Init /\ authEndpoint
NextSub ==
    NextRegistry({<<"", "news">>, <<"private-", "orders">>},
                 EstablishedFrames({"s1"}) \cup AnswerFrames({<<"", "news">>}),
                 {o \in AuthOutcomes : ~o.channel_data.present}, FALSE)
SpecSub == InitSub /\ [][NextSub]_vars

\* The registry with a private and a presence channel, with and without an
\* auth endpoint; the application connects again only once the old transport
\* has closed.
NextAuth ==
    NextRegistry({<<"private-", "orders">>, <<"presence-", "room">>},
                 EstablishedFrames(SocketIds),
                 {o \in AuthOutcomes : o.channel_data.user_id.val # "u2"}, TRUE)
SpecAuth == Init /\ [][NextAuth]_vars

\* The decoded presence object of a subscription snapshot.
InfoOf(id) == IF id = "a" THEN "i1" ELSE "i2"
HashOf(ids) == [i \in MemberIds |-> IF i \in ids THEN InfoOf(i) ELSE NoInfo]
SnapshotFrame(name, data) ==
    [Msg("realtime:subscription_succeeded", name) EXCEPT !.data = data]

\* The auth gateway answers for the user of the connection it is asked about:
\* the self identity in a response is that of the socket_id in the request.
SelfOf(sid) == IF sid = "s1" THEN "u1" ELSE "u2"
SelfOutcomes(sid) ==
    {o \in AuthOutcomes :
        \/ ~o.channel_data.present
        \/ /\ o.channel_data.json
           /\ o.channel_data.user_id = [type |-> "string", val |-> SelfOf(sid)]
           /\ o.channel_data.user_info \in {"object", "array"}}

\* The registry with one presence channel and an auth endpoint, over
\* connections with two different identifiers; the server establishes a
\* connection once, and the application connects again only once the old
\* transport has closed.
SelfFrames ==
    EstablishedFrames({"s1"})
    \cup {[Msg("realtime:connection_established", NoChannel)
              EXCEPT !.sid = "s2", !.timeout = 1]}
    \cup AnswerFrames({<<"presence-", "room">>})
    \cup {SnapshotFrame(<<"presence-", "room">>, PresenceData(7, <<"a">>, HashOf({"a"})))}

NextSelf ==
    \/ (\A t \in Sockets : sock[t] = "NONE") /\ Connect(TRUE)
    \/ Disconnect
    \/ \E t \in Sockets : OnOpen(t)
    \/ \E t \in Sockets, m \in SelfFrames :
          /\ m.event = "realtime:connection_established" => state = "connecting"
          /\ OnMessage(t, m)
    \/ \E t \in Sockets : sock[t] \in {"OPEN", "CLOSING"} /\ OnClose(t)
    \/ Subscribe(<<"presence-", "room">>)
    \/ Unsubscribe(<<"presence-", "room">>)
    \/ \E c \in BagToSet(authCalls) : \E o \in SelfOutcomes(c.sid) : AuthSettles(c, o)

SpecSelf == InitSub /\ [][NextSelf]_vars

\* Unsubscribing: the presence channel of SpecSelf with a callback bound to
\* an event of the channel and frames of that event.
NextUnsub ==
    \/ NextSelf
    \/ Bind(<<"presence-", "room">>, "my-event", "f")
    \/ \E t \in Sockets : OnMessage(t, Msg("my-event", <<"presence-", "room">>))

SpecUnsub == InitSub /\ [][NextUnsub]_vars

\* The registry with one presence channel over connections that fail: the
\* WebSocket constructor may throw, and the application may connect again
\* while an old transport is still alive.
ClearFrames ==
    EstablishedFrames({"s1"})
    \cup {SnapshotFrame(<<"presence-", "room">>, PresenceData(7, <<"a">>, HashOf({"a"})))}

NextClear ==
    \/ \E ok \in BOOLEAN : Connect(ok)
    \/ Disconnect
    \/ \E t \in Sockets : OnOpen(t)
    \/ \E t \in Sockets, m \in ClearFrames : OnMessage(t, m)
    \/ \E t \in Sockets : sock[t] \in {"OPEN", "CLOSING"} /\ OnClose(t)
    \/ Subscribe(<<"presence-", "room">>)
    \/ \E c \in BagToSet(authCalls) :
          \E o \in {x \in SelfOutcomes(c.sid) : x.ok /\ x.channel_data.user_info = "object"} :
             AuthSettles(c, o)

SpecClear == InitSub /\ [][NextClear]_vars

\* The subscription snapshots of a presence channel: a presence object with
\* a wire count, an id list (with a repeated id, with an element that is
\* not a string) and a hash, and the payloads that are no presence object.
WireCounts == {0, 7}
SnapshotIds == {<<>>, <<"a">>, <<"b", "a">>, <<"a", "a">>, <<NotAString, "b">>}
SnapshotHashes == {HashOf(S) : S \in SUBSET MemberIds}
Snapshots ==
    {PresenceData(c, ids, h) : c \in WireCounts, ids \in SnapshotIds, h \in SnapshotHashes}
    \cup {NoData, [NoData EXCEPT !.kind = "other"],
          [PresenceData(7, <<"a">>, HashOf({"a"})) EXCEPT !.countIsNumber = FALSE],
          [PresenceData(7, <<"a">>, HashOf({"a"})) EXCEPT !.idsIsArray = FALSE],
          [PresenceData(7, <<"a">>, HashOf({"a"})) EXCEPT !.hashIsObject = FALSE]}

\* The payloads of realtime:member_added and realtime:member_removed.
MemberPayloads ==
    {InfoData([type |-> "string", val |-> id], info) : id \in MemberIds, info \in Infos}
    \cup {InfoData([type |-> "string", val |-> id], "undefined") : id \in MemberIds}
    \cup {NoData, [NoData EXCEPT !.kind = "other"],
          InfoData([type |-> "string", val |-> ""], "i1"),
          InfoData([type |-> "number", val |-> ""], "i1"),
          InfoData([type |-> "string", val |-> "a"], "array"),
          InfoData([type |-> "string", val |-> "a"], "string"),
          InfoData([type |-> "string", val |-> "a"], "null")}

MemberFrames(name) ==
    {SnapshotFrame(name, d) : d \in Snapshots}
    \cup {[Msg(e, name) EXCEPT !.data = d] :
            e \in {"realtime:member_added", "realtime:member_removed"},
            d \in MemberPayloads}
    \cup {Msg("realtime:subscription_error", name)}

\* One presence channel, the frames that change its members and a callback
\* bound to the member events; no auth endpoint, so that no handshake is in
\* flight.
NextMembers ==
    \/ (\A t \in Sockets : sock[t] = "NONE") /\ Connect(TRUE)
    \/ Disconnect
    \/ \E t \in Sockets : OnOpen(t)
    \/ \E t \in Sockets, m \in EstablishedFrames({"s1"}) \cup MemberFrames(<<"presence-", "room">>) :
          OnMessage(t, m)
    \/ \E t \in Sockets : sock[t] \in {"OPEN", "CLOSING"} /\ OnClose(t)
    \/ Subscribe(<<"presence-", "room">>)
    \/ Unsubscribe(<<"presence-", "room">>)
    \/ \E e \in MemberEvents : Bind(<<"presence-", "room">>, e, "f")
    \/ \E e \in MemberEvents : Unbind(<<"presence-", "room">>, e, "f")

SpecMembers == InitConn /\ [][NextMembers]_vars

\* Client events: a public and a private channel with an auth endpoint, the
\* trigger calls of the application, and its bind, unbind and unbindAll calls
\* on the private channel.
TriggerFrames ==
    EstablishedFrames({"s1"})
    \cup {Msg("realtime:subscription_succeeded", n) :
            n \in {<<"", "news">>, <<"private-", "orders">>}}

NextTrigger ==
    \/ (\A t \in Sockets : sock[t] = "NONE") /\ Connect(TRUE)
    \/ Disconnect
    \/ \E t \in Sockets : OnOpen(t)
    \/ \E t \in Sockets, m \in TriggerFrames : OnMessage(t, m)
    \/ \E t \in Sockets : sock[t] \in {"OPEN", "CLOSING"} /\ OnClose(t)
    \/ \E n \in {<<"", "news">>, <<"private-", "orders">>} : Subscribe(n)
    \/ \E n \in {<<"", "news">>, <<"private-", "orders">>} : Unsubscribe(n)
    \/ \E c \in BagToSet(authCalls) :
          AuthSettles(c, [ok |-> TRUE, status |-> StatusOk,
                             channel_data |-> NoChannelData])
    \/ \E n \in {<<"", "news">>, <<"private-", "orders">>}, e \in TriggerEvents :
          Trigger(n, e)
    \/ Bind(<<"private-", "orders">>, "my-event", "f")
    \/ \E e \in BoundEvents, cb \in {"f", NoCallback} :
          Unbind(<<"private-", "orders">>, e, cb)
    \/ UnbindAll(<<"private-", "orders">>)

SpecTrigger == InitSub /\ [][NextTrigger]_vars

\* Client events triggered on the channel objects themselves, registered or
\* kept after unsubscribe, next to the steps of SpecTrigger.
NextChannelTrigger ==
    \/ NextTrigger
    \/ \E n \in {<<"", "news">>, <<"private-", "orders">>}, e \in TriggerEvents :
          ChannelTrigger(n, e)
    \/ \E n \in {<<"", "news">>, <<"private-", "orders">>}, e \in TriggerEvents :
          StaleTrigger(n, e)

SpecChannelTrigger == InitSub /\ [][NextChannelTrigger]_vars

\* Dispatch: one private channel, callbacks bound and unbound on it and
\* globally, and frames of the bound event and subscription confirmations
\* delivered, for that channel, for a channel that is not registered and
\* for no channel, while any of the callbacks throw.
DispatchFrames ==
    EstablishedFrames({"s1"})
    \cup {Msg("my-event", n) : n \in {NoChannel, <<"", "news">>, <<"private-", "orders">>}}
    \cup {Msg("realtime:subscription_succeeded", n) :
            n \in {<<"", "news">>, <<"private-", "orders">>}}

NextDispatch ==
    \/ (\A t \in Sockets : sock[t] = "NONE") /\ Connect(TRUE)
    \/ \E t \in Sockets : OnOpen(t)
    \/ \E t \in Sockets, m \in DispatchFrames, thr \in SUBSET Callbacks :
          Dispatch(t, m, thr)
    \/ \E t \in Sockets : sock[t] \in {"OPEN", "CLOSING"} /\ OnClose(t)
    \/ Subscribe(<<"private-", "orders">>)
    \/ Unsubscribe(<<"private-", "orders">>)
    \/ \E cb \in Callbacks : Bind(<<"private-", "orders">>, "my-event", cb)
    \/ \E cb \in Callbacks \cup {NoCallback} : Unbind(<<"private-", "orders">>, "my-event", cb)
    \/ \E cb \in Callbacks : GlobalBind("my-event", cb)
    \/ \E cb \in Callbacks \cup {NoCallback} : GlobalUnbind("my-event", cb)

SpecDispatch == InitConn /\ [][NextDispatch]_vars

----------------------------------------------------------------------------
\* Reconnection and keepalive, under SpecConn.

NoTimers == ~reconnectTimer.on /\ ~activityTimer.on

\* C1: when the reconnect timeout scheduled by an unexpected close fires, a
\* fresh transport is constructed.
C1_ReconnectTimerOpensTransport ==
    act.name = "reconnectTimer" => act.created # 0

\* The backoff delays of unexpected closes number 0 to 5 of a run.
BackoffTable == <<1000, 2000, 4000, 8000, 16000, 30000>>

C3_DisconnectIsFinal ==
    [][ /\ act'.name = "disconnect" => state' = "disconnected" /\ NoTimers'
        /\ (state = "disconnected" /\ act'.name = "onclose") =>
              state' = "disconnected" /\ NoTimers' /\ act'.created = 0
        /\ (state = "disconnected" /\ act'.created # 0) => act'.name = "connect"
      ]_vars

C3_Witness ==
    /\ state = "disconnected"
    /\ act.name = "onclose"

\* C4: a realtime:error frame with a code in 4000..4004 leaves the state
\* disconnected, no timeout pending and no transport held or constructed;
\* with any other code it leaves the state, the timeouts and the transports
\* as they were.  And while the state is disconnected, no step but a
\* connect() call arms the reconnect timeout or constructs a transport.
C4_FatalErrorCodes ==
    [][ /\ \A t \in Sockets, m \in ConnFrames :
            (act'.name = "onmessage" /\ m.event = "realtime:error" /\ OnMessage(t, m)) =>
                IF m.code \in 4000..4004
                THEN state' = "disconnected" /\ NoTimers' /\ ws' = 0 /\ act'.created = 0
                ELSE UNCHANGED <<state, reconnectTimer, activityTimer, ws, sock>>
        /\ (state = "disconnected" /\ act'.name # "connect") =>
                ~reconnectTimer'.on /\ act'.created = 0
      ]_vars

C4_Witness ==
    /\ act.name = "onmessage"
    /\ act.changes = << <<"connected", "disconnected">> >>

\* C5: the activity timeout fires T seconds after the connection was
\* established and a ping is then written to the transport; the grace
\* timeout fires 30 s later and the transport is then closed.
C5_KeepaliveClosesSilentTransport ==
    /\ act.name = "activityTimer" =>
          /\ Len(act.sent) = 1
          /\ act.sent[1].event = "realtime:ping"
    /\ act.name = "graceTimer" => act.closed # {}

\* C6: a decoded inbound frame that arrives while the grace timeout is
\* pending cancels it and arms the activity timeout again.
C6_AnyFrameResetsKeepalive ==
    [][ ( /\ activityTimer.on /\ activityTimer.kind = "grace"
          /\ act'.name = "onmessage" /\ act'.delivered > 0 )
        => (activityTimer'.on /\ activityTimer'.kind = "activity")
      ]_vars

\* C21: connect() in state connecting or connected constructs no transport,
\* leaves the state, the held transport and the timeouts as they are and
\* notifies no state change; in any other state, with a constructor that
\* returns, it notifies the one change to connecting and constructs exactly
\* one transport, which it holds.
C21_ConnectOnlyWhenIdle ==
    [][ (act'.name = "connect") =>
            IF state \in {"connecting", "connected"}
            THEN /\ act'.created = 0
                 /\ act'.changes = <<>>
                 /\ UNCHANGED <<state, ws, sock, reconnectAttempts, reconnectTimer,
                                activityTimer, socketId>>
            ELSE \/ act'.unexpected # -1
                 \/ /\ state' = "connecting"
                    /\ act'.changes = << <<state, "connecting">> >>
                    /\ act'.created # 0
                    /\ ws' = act'.created
                    /\ sock[act'.created] = "NONE"
                    /\ sock' = [sock EXCEPT ![act'.created] = "CONNECTING"]
      ]_vars

C21_Witness ==
    /\ act.name = "connect"
    /\ act.created = 0
    /\ act.unexpected = -1
    /\ state = "connected"
    /\ ws # 0

\* C22: the connection identifier is null at first and changes only when
\* realtime:connection_established is decoded; that frame leaves the state
\* connected, the identifier the frame's socket_id, and the activity timeout
\* armed with the frame's activity_timeout seconds, 120 s if that is 0.
C22_Established ==
    /\ socketId = NoSocketId
    /\ [][ /\ (act'.name = "onmessage"
                /\ act'.frame.event = "realtime:connection_established") =>
                  /\ state' = "connected"
                  /\ socketId' = act'.frame.sid
                  /\ activityTimer' =
                        Timer("activity",
                              (IF act'.frame.timeout = 0 THEN 120 ELSE act'.frame.timeout)
                                  * 1000)
           /\ (socketId' # socketId) =>
                  /\ act'.name = "onmessage"
                  /\ act'.frame.event = "realtime:connection_established"
         ]_vars

C22_Witness ==
    /\ act.name = "onmessage"
    /\ act.frame.event = "realtime:connection_established"
    /\ act.frame.timeout = 0
    /\ activityTimer = Timer("activity", 120000)
    /\ state = "connected"

\* C24: a text frame that is not JSON leaves the state, the transports,
\* the attempt counter, the timeouts and the connection identifier as they
\* are, and the message callback is not invoked.
C24_MalformedFrameIgnored ==
    [][ (act'.name = "onmessage" /\ act'.frame.event = "malformed") =>
            /\ UNCHANGED <<state, ws, sock, reconnectAttempts, reconnectTimer,
                           activityTimer, socketId, chanInst, subscribed>>
            /\ act'.delivered = 0
            /\ act'.changes = <<>>
            /\ act'.sent = <<>>
      ]_vars

C24_Witness ==
    /\ act.name = "onmessage"
    /\ act.frame.event = "malformed"
    /\ state = "connected"
    /\ activityTimer.on /\ activityTimer.kind = "grace"

\* The state-change notifications of a step lead from its first state to
\* its last, each one a change.
ChangesChain(changes, from, to) ==
    IF changes = <<>> THEN from = to
    ELSE /\ changes[1][1] = from
         /\ changes[Len(changes)][2] = to
         /\ \A i \in 1..Len(changes) : changes[i][1] # changes[i][2]
         /\ \A i \in 1..(Len(changes) - 1) : changes[i][2] = changes[i + 1][1]

\* C25: every step notifies exactly the changes of the state it makes, each
\* with the previous and the current state, and every decoded inbound frame,
\* control frames included, is handed to the message callback once.
C25_CallbacksOncePerEvent ==
    [][ /\ ChangesChain(act'.changes, state, state')
        /\ (act'.name = "onmessage" /\ act'.frame.event # "malformed") =>
                act'.delivered = 1
      ]_vars

\* The notifications alone.
C25_StateChangesNotified ==
    [][ ChangesChain(act'.changes, state, state') ]_vars

\* C26: the attempt counter returns to 0 only in a step that decodes
\* realtime:connection_established.
C26_CounterResetOnConnected ==
    [][ (reconnectAttempts # 0 /\ reconnectAttempts' = 0) =>
            /\ act'.name = "onmessage"
            /\ act'.frame.event = "realtime:connection_established"
      ]_vars

----------------------------------------------------------------------------
\* The channel registry, under SpecSub.

News == <<"", "news">>
Orders == <<"private-", "orders">>
Room == <<"presence-", "room">>

\* The realtime:subscribe frames among the frames a step wrote.
SubscribeFrames(a) == {i \in 1..Len(a.sent) : a.sent[i].event = "realtime:subscribe"}

\* C7: subscribe(name) for a registered name returns the registered
\* instance, constructs none, leaves the registry as it is, writes no frame
\* and starts no handshake.
C7_SubscribeIdempotent ==
    [][ \A n \in {News, Orders} :
          (act'.name = "subscribe" /\ chanInst[n] # 0 /\ Subscribe(n)) =>
              /\ act'.returned = chanInst[n]
              /\ act'.constructed = 0
              /\ chanInst' = chanInst
              /\ act'.sent = <<>>
              /\ act'.started = {} /\ act'.contacted = {}
      ]_vars

C7_Witness ==
    /\ act.name = "subscribe"
    /\ act.constructed = 0
    /\ act.returned # 0
    /\ state = "connected"

\* C8: on every step that enters connected, exactly one realtime:subscribe
\* frame naming the registered public channel is written, on the transport
\* that established the connection.
C8_OneSubscribePerConnection ==
    [][ \A t \in Sockets, m \in EstablishedFrames({"s1"}) :
          ( /\ state # "connected" /\ state' = "connected"
            /\ chanInst[News] # 0
            /\ OnMessage(t, m) )
          => \E i \in SubscribeFrames(act') :
                /\ act'.sent[i].channel = News /\ act'.sent[i].sock = t
                /\ \A j \in SubscribeFrames(act') : act'.sent[j].channel = News => j = i
      ]_vars

\* C9: subscribe(name) while not connected writes no frame, starts no
\* handshake and calls no auth gateway; a step that enters connected starts
\* the handshake of exactly the registered channels; subscribe(name) of a new
\* name while connected starts the handshake of that channel alone, calling
\* the auth gateway if the channel is private.
C9_SubscribeDeferredUntilConnected ==
    [][ /\ \A n \in {News, Orders} :
            (act'.name = "subscribe" /\ state # "connected" /\ Subscribe(n)) =>
                act'.sent = <<>> /\ act'.started = {} /\ act'.contacted = {}
        /\ (state # "connected" /\ state' = "connected") =>
                /\ act'.started = {n \in ChannelNames : chanInst[n] # 0}
                /\ act'.contacted = {n \in {Orders} : chanInst[n] # 0}
        /\ \A n \in {News, Orders} :
            (act'.name = "subscribe" /\ state = "connected" /\ chanInst[n] = 0 /\ Subscribe(n)) =>
                /\ act'.started = {n}
                /\ act'.contacted = {n} \cap {Orders}
      ]_vars

C9_Witness ==
    /\ act.name = "onmessage"
    /\ Len(act.changes) = 1
    /\ state = "connected"
    /\ act.started = {News, Orders}

----------------------------------------------------------------------------
\* Authenticated subscription, under SpecAuth.

\* The AuthErrors a step emitted on channel n.
AuthErrorsOn(a, n) ==
    {i \in 1..Len(a.errors) : a.errors[i].channel = n /\ a.errors[i].type = "AuthError"}

\* C10: a realtime:subscribe frame of a private or presence channel is
\* written only by the step in which the channel's auth call resolves, for
\* a presence channel with channel_data that decodes to a self identity;
\* a call that is rejected, or resolves without channel_data or with invalid
\* channel_data for a presence channel, writes no subscribe frame and emits
\* exactly one AuthError on the channel instance; a handshake started
\* without auth endpoint or without connection identifier writes no frame,
\* emits exactly one AuthError on the channel and does not call the
\* gateway, and one started with both calls it and emits nothing.
C10_AuthBeforeSubscribe ==
    [][ /\ act'.name = "authSettles" =>
            LET c == act'.settled[1]
                o == act'.settled[2]
            IN  IF o.ok /\ (c.name = Room => ValidSelf(o.channel_data))
                THEN /\ act'.errors = <<>>
                     /\ \A i \in SubscribeFrames(act') :
                            act'.sent[i].channel = c.name /\ act'.sent[i].auth
                ELSE /\ SubscribeFrames(act') = {}
                     /\ Len(act'.errors) = 1
                     /\ AuthErrorsOn(act', c.name) = {1}
                     /\ act'.errors[1].inst = c.inst
        /\ act'.name # "authSettles" => SubscribeFrames(act') = {}
        /\ \A n \in act'.started :
            IF ~authEndpoint \/ socketId' \in {NoSocketId, ""}
            THEN /\ Cardinality(AuthErrorsOn(act', n)) = 1
                 /\ n \notin act'.contacted
                 /\ ~authEndpoint => act'.contacted = {}
            ELSE /\ AuthErrorsOn(act', n) = {}
                 /\ n \in act'.contacted
      ]_vars

C10_Witness ==
    /\ act.name = "authSettles"
    /\ act.settled[1].name = Room
    /\ act.settled[2].ok
    /\ act.settled[2].channel_data.user_info = "array"
    /\ Len(act.errors) = 1

\* C11: when the auth call of a channel that has been unsubscribed in the
\* meantime settles, no realtime:subscribe frame is written, no pending self
\* identity is stored and no channel's subscription state changes.
C11_LateAuthHasNoEffect ==
    [][ (act'.name = "authSettles" /\ chanInst[act'.settled[1].name] = 0) =>
            /\ SubscribeFrames(act') = {}
            /\ pendingPresenceSelf' = pendingPresenceSelf
            /\ subscribed' = subscribed
      ]_vars

----------------------------------------------------------------------------
\* The self identity of a presence channel, under SpecSelf.

\* C12: after a subscription success, a subscription error or an unsubscribe
\* of a channel the pending map has no entry for it, and after every step
\* the pending map holds entries for registered presence channels only.
C12_PendingSelfNeverSurvives ==
    [][ /\ \A t \in Sockets, m \in AnswerFrames({Room}) :
            (act'.name = "onmessage" /\ OnMessage(t, m)) =>
                pendingPresenceSelf'[Room] = NoSelf
        /\ act'.name = "unsubscribe" => pendingPresenceSelf'[Room] = NoSelf
        /\ \A n \in ChannelNames :
            pendingPresenceSelf'[n] # NoSelf =>
                chanInst'[n] # 0 /\ startsWith(n, "presence-")
      ]_vars

\* C13: a step that takes the connection from connected to connecting, or
\* into disconnected or unavailable, leaves the pending map empty and every
\* registered presence channel with no member id, no member, count 0 and no
\* self identity.
C13_PresenceClearedOnConnectionLoss ==
    [][ ( \/ state = "connected" /\ state' = "connecting"
          \/ state # "disconnected" /\ state' = "disconnected"
          \/ state # "unavailable" /\ state' = "unavailable" ) =>
            /\ \A n \in ChannelNames : pendingPresenceSelf'[n] = NoSelf
            /\ \A n \in ChannelNames :
                (chanInst'[n] # 0 /\ startsWith(n, "presence-")) =>
                    /\ presence'[n].ids = <<>>
                    /\ getMembers(presence'[n]) = <<>>
                    /\ memberCount(presence'[n]) = 0
                    /\ me(presence'[n]) = NoSelf
      ]_vars

C13_Witness ==
    /\ state = "unavailable"
    /\ act.name = "onclose"
    /\ chanInst[Room] # 0

\* A presence channel holds members and a self identity while the next
\* close will exhaust the reconnect attempts.
C13_MembersBeforeUnavailable ==
    /\ state = "connecting"
    /\ reconnectAttempts = MaxReconnectAttempts
    /\ getMembers(presence[Room]) # <<>>
    /\ me(presence[Room]) # NoSelf

\* The subscription successes of the presence channel among SelfFrames.
RoomSucceeded == {m \in SelfFrames : m.event = "realtime:subscription_succeeded"}

\* C19: the self identity of a presence channel is absent when a handshake
\* of the channel starts, it is set only by a subscription success, and a
\* subscription success that follows an auth response sets it to the
\* identity the gateway gives for the current connection, whatever the
\* snapshot holds.
C19_MeFromFreshAuth ==
    [][ /\ (Room \in act'.started /\ chanInst'[Room] # 0) =>
                me(presence'[Room]) = NoSelf
        /\ (me(presence'[Room]) # NoSelf /\ me(presence'[Room]) # me(presence[Room])) =>
                /\ act'.name = "onmessage"
                /\ subscribed'[Room]
        /\ \A t \in Sockets, m \in RoomSucceeded :
            ( /\ act'.name = "onmessage"
              /\ chanInst[Room] # 0
              /\ pendingPresenceSelf[Room] # NoSelf
              /\ OnMessage(t, m) )
            => me(presence'[Room]) = SelfOf(socketId)
      ]_vars

----------------------------------------------------------------------------
\* The members of a presence channel, under SpecMembers.

\* The positions of the id sequence whose id has no user-info entry.
MissingInfo(p) == {i \in 1..Len(p.ids) : p.ids[i] \notin MemberIds \/ p.hash[p.ids[i]] = NoInfo}

\* C16: memberCount is the length of the member-id sequence, which is the
\* length of getMembers() plus the number of ids without user-info entry,
\* whatever count the snapshots carried.
C16_CountIsLengthOfIds ==
    \A n \in ChannelNames :
        startsWith(n, "presence-") =>
            /\ memberCount(presence[n]) = Len(presence[n].ids)
            /\ memberCount(presence[n]) =
                  Len(getMembers(presence[n])) + Cardinality(MissingInfo(presence[n]))

C16_Witness ==
    /\ act.name = "onmessage"
    /\ act.frame.event = "realtime:subscription_succeeded"
    /\ act.frame.data.kind = "presence"
    /\ act.frame.data.count = 7
    /\ chanInst[Room] # 0
    /\ memberCount(presence[Room]) = 2
    /\ Len(getMembers(presence[Room])) = 1

\* A well-formed snapshot, the members it lists (its string ids that have a
\* hash entry, in the order of the id list) and the ids that occur in it.
WellFormed(d) == d.kind = "presence" /\ d.countIsNumber /\ d.idsIsArray /\ d.hashIsObject
SnapshotMembers(d) ==
    LET Listed(id) == id \in MemberIds /\ d.hash[id] \in Infos
        ids == SelectSeq(d.ids, Listed)
    IN  [i \in 1..Len(ids) |-> [user_id |-> ids[i], user_info |-> d.hash[ids[i]]]]
InSnapshot(d, id) == (\E i \in 1..Len(d.ids) : d.ids[i] = id) \/ d.hash[id] \in Infos

\* C17: after a well-formed subscription snapshot is delivered to a
\* registered presence channel, getMembers() is exactly the members of the
\* snapshot and getMember(id) returns nothing for every id that does not
\* occur in the snapshot, whatever members the channel had.
C17_SnapshotReplacesMembers ==
    [][ ( /\ act'.name = "onmessage"
          /\ act'.frame.event = "realtime:subscription_succeeded"
          /\ act'.frame.channel = Room
          /\ WellFormed(act'.frame.data)
          /\ chanInst[Room] # 0 )
        => /\ getMembers(presence'[Room]) = SnapshotMembers(act'.frame.data)
           /\ \A id \in MemberIds :
                ~InSnapshot(act'.frame.data, id) =>
                    getMember(presence'[Room], id) = NoMember
      ]_vars

C17_Witness ==
    /\ act.name = "onmessage"
    /\ act.frame.event = "realtime:subscription_succeeded"
    /\ act.frame.channel = Room
    /\ act.frame.data.ids = <<"a">>
    /\ act.frame.data.hash = HashOf({"a"})
    /\ chanInst[Room] # 0
    /\ Len(getMembers(presence[Room])) = 1
    /\ getMember(presence[Room], "b") = NoMember

\* C18: a well-formed realtime:member_added for an id that is in the id
\* sequence leaves the sequence as it is and makes the payload's user_info
\* the id's user-info.
C18_MemberAddedIdempotent ==
    [][ ( /\ act'.name = "onmessage"
          /\ act'.frame.event = "realtime:member_added"
          /\ act'.frame.channel = Room
          /\ chanInst[Room] # 0
          /\ act'.frame.data.kind = "info"
          /\ act'.frame.data.user_id.val \in MemberIds
          /\ act'.frame.data.user_info \in Infos
          /\ Includes(presence[Room].ids, act'.frame.data.user_id.val) )
        => /\ presence'[Room].ids = presence[Room].ids
           /\ memberCount(presence'[Room]) = memberCount(presence[Room])
           /\ getMember(presence'[Room], act'.frame.data.user_id.val).user_info
                 = act'.frame.data.user_info
      ]_vars

C18_Witness ==
    /\ act.name = "onmessage"
    /\ act.frame.event = "realtime:member_added"
    /\ act.frame.data.user_id.val = "a"
    /\ act.frame.data.user_info = "i2"
    /\ presence[Room].ids = <<"a", "a">>
    /\ getMember(presence[Room], "a").user_info = "i2"

\* C27: the member-id sequence of a presence channel never holds the same id
\* at two positions.
C27_NoDuplicateIds ==
    \A n \in ChannelNames :
        \A i, j \in 1..Len(presence[n].ids) :
            presence[n].ids[i] = presence[n].ids[j] => i = j

\* C28: getMember(id) returns an entry exactly when getMembers() has an entry
\* with that id.
C28_GetMemberAgreesWithGetMembers ==
    \A n \in ChannelNames, id \in MemberIds :
        getMember(presence[n], id) # NoMember
            <=> \E i \in 1..Len(getMembers(presence[n])) :
                   getMembers(presence[n])[i].user_id = id

\* A member payload without a non-empty string user_id, and one that also
\* counts as malformed when its user_info is no object or is an array.
LacksUserId(d) == d.kind # "info" \/ d.user_id.type # "string" \/ d.user_id.val = ""
LacksUserInfo(d) == d.kind # "info" \/ d.user_info \notin Infos
ChannelCalls(invoked) == {i \in 1..Len(invoked) : invoked[i].scope = "channel"}

\* C29: a realtime:member_added frame without a non-empty string user_id or
\* without an object user_info, and a realtime:member_removed frame without a
\* non-empty string user_id, leave ids, hash and count of the presence
\* channel as they are, invoke no callback of the channel and throw nothing.
C29_MalformedMemberEventDropped ==
    [][ ( /\ act'.name = "onmessage"
          /\ act'.frame.channel = Room
          /\ \/ /\ act'.frame.event = "realtime:member_added"
                /\ LacksUserId(act'.frame.data) \/ LacksUserInfo(act'.frame.data)
             \/ /\ act'.frame.event = "realtime:member_removed"
                /\ LacksUserId(act'.frame.data) )
        => /\ presence' = presence
           /\ ChannelCalls(act'.invoked) = {}
           /\ ~act'.exception
           /\ act'.errors = <<>>
      ]_vars

C29_Witness ==
    /\ act.name = "onmessage"
    /\ act.frame.event = "realtime:member_added"
    /\ act.frame.channel = Room
    /\ act.frame.data.user_id.val = "a"
    /\ act.frame.data.user_info = "array"
    /\ chanInst[Room] # 0
    /\ bindings[Room]["realtime:member_added"] = <<"f">>
    /\ presence[Room].ids = <<"b">>
    /\ getMember(presence[Room], "a") = NoMember

----------------------------------------------------------------------------
\* Client events, under SpecTrigger.

\* C14: client.trigger(name, event, data) throws and writes no frame when
\* the event is not prefixed client-, when the channel is not registered
\* ("is not subscribed"), when it is registered but not confirmed ("is not
\* yet subscribed") or when it is public; on a confirmed private channel
\* with a client- event it does not throw.
C14_TriggerThrows ==
    [][ act'.name = "trigger" =>
            LET n == act'.call[1]
                e == act'.call[2]
                prefixed == e[1] = "client-"
            IN  IF ~prefixed \/ chanInst[n] = 0 \/ ~subscribed[n] \/ n[1] = ""
                THEN /\ act'.threw # ""
                     /\ act'.exception
                     /\ act'.sent = <<>>
                     /\ (prefixed /\ chanInst[n] = 0) => act'.threw = "is not subscribed"
                     /\ (prefixed /\ chanInst[n] # 0 /\ ~subscribed[n]) =>
                            act'.threw = "is not yet subscribed"
                ELSE act'.threw = "" /\ ~act'.exception
      ]_vars

C14_Witness ==
    /\ act.name = "trigger"
    /\ act.call = <<Orders, <<"client-", "x">> >>
    /\ act.threw = "is not yet subscribed"
    /\ state = "connected"

\* A confirmed private channel accepts a client event.
C14_Accepted ==
    /\ act.name = "trigger"
    /\ act.call = <<Orders, <<"client-", "x">> >>
    /\ act.threw = ""

\* C15: a client.trigger(name, event, data) call that returns without
\* throwing while the held transport is open writes exactly one frame, with
\* the event and the channel name, to that transport, whatever bind, unbind
\* and unbindAll calls were made on the channel before.
C15_TriggerForwardsOneFrame ==
    [][ ( /\ act'.name = "trigger"
          /\ act'.threw = ""
          /\ ws # 0 /\ sock[ws] = "OPEN" )
        => /\ Len(act'.sent) = 1
           /\ act'.sent[1] =
                 Frame(ws, act'.call[2][1] \o act'.call[2][2], act'.call[1], FALSE)
      ]_vars

----------------------------------------------------------------------------
\* Callback isolation, under SpecDispatch.

\* The invocations of the callbacks cbs, in order.
Calls(scope, event, cbs) ==
    [i \in 1..Len(cbs) |-> [scope |-> scope, event |-> event, cb |-> cbs[i]]]

\* C20: a frame of an event with global and channel-local callbacks invokes
\* every global callback once in binding order and then, if its channel is
\* registered, every callback of the channel once in binding order,
\* whichever of them throw; no exception leaves the router, and the
\* connection, the registry and the bindings are as they were.
C20_CallbackIsolation ==
    [][ (act'.name = "onmessage" /\ act'.frame.event = "my-event") =>
            /\ act'.invoked =
                  Calls("global", "my-event", globalBindings["my-event"])
                  \o (IF act'.frame.channel = Orders /\ chanInst[Orders] # 0
                      THEN Calls("channel", "my-event", bindings[Orders]["my-event"])
                      ELSE <<>>)
            /\ ~act'.exception
            /\ act'.delivered = 1
            /\ UNCHANGED <<state, ws, sock, reconnectAttempts, reconnectTimer,
                           activityTimer, socketId, chanInst, subscribed,
                           bindings, globalBindings>>
      ]_vars

C20_Witness ==
    /\ act.name = "onmessage"
    /\ act.frame = Msg("my-event", Orders)
    /\ act.throwing = {"f", "g"}
    /\ Len(act.invoked) = 4
    /\ act.invoked[1] = [scope |-> "global", event |-> "my-event", cb |-> "g"]
    /\ act.invoked[4] = [scope |-> "channel", event |-> "my-event", cb |-> "g"]

\* The global callbacks that a frame of this event invokes.
GlobalCalls(event) ==
    IF event \in GlobalEvents THEN Calls("global", event, globalBindings[event]) ELSE <<>>

\* C30: a frame whose channel is not registered leaves the registry, the
\* subscription state, the presence state and the pending self identities of
\* every channel as they are and invokes exactly the global callbacks of its
\* event; a frame without channel invokes exactly the global callbacks of
\* its event.
C30_UnregisteredChannelFrame ==
    [][ /\ ( /\ act'.name = "onmessage"
             /\ act'.frame.event # "malformed"
             /\ act'.frame.channel # NoChannel
             /\ chanInst[act'.frame.channel] = 0 )
           => /\ UNCHANGED <<chanInst, subscribed, presence, pendingPresenceSelf, bindings>>
              /\ act'.invoked = GlobalCalls(act'.frame.event)
              /\ act'.sent = <<>>
        /\ ( /\ act'.name = "onmessage"
             /\ act'.frame.event = "my-event"
             /\ act'.frame.channel = NoChannel )
           => /\ UNCHANGED <<chanInst, subscribed, presence, pendingPresenceSelf, bindings>>
              /\ act'.invoked = GlobalCalls(act'.frame.event)
      ]_vars

C30_Witness ==
    /\ act.name = "onmessage"
    /\ act.frame.event = "my-event"
    /\ act.frame.channel = Orders
    /\ chanInst[Orders] = 0
    /\ act.throwing = {"g"}
    /\ globalBindings["my-event"] = <<"g", "f">>
    /\ Len(act.invoked) = 2

----------------------------------------------------------------------------
\* Unsubscribing, under SpecUnsub.

ProgramVars ==
    <<state, ws, sock, reconnectAttempts, reconnectTimer, activityTimer, socketId,
      authEndpoint, chanInst, subscribed, pendingPresenceSelf, presence, bindings,
      globalBindings, authCalls>>

\* What unsubscribe(name) leaves of a registered channel, and that a frame
\* for a name that is not registered invokes no callback of a channel.
Unregistered(n) ==
    /\ chanInst'[n] = 0
    /\ ~subscribed'[n]
    /\ bindings'[n] = NoBindings
    /\ pendingPresenceSelf'[n] = NoSelf
    /\ presence'[n] = EmptyPresence
    /\ \A k \in ChannelNames \ {n} :
          /\ chanInst'[k] = chanInst[k]
          /\ bindings'[k] = bindings[k]
          /\ presence'[k] = presence[k]
NoOldCallbacks ==
    (act'.name = "onmessage" /\ act'.frame.channel = Room /\ chanInst[Room] = 0)
        => ChannelCalls(act'.invoked) = {}

\* C23 as stated: unsubscribe(name) of a registered name sends exactly one
\* realtime:unsubscribe frame.
C23_UnsubscribeSendsOneFrame ==
    [][ (act'.name = "unsubscribe" /\ chanInst[Room] # 0)
           => /\ Len(act'.sent) = 1
              /\ act'.sent[1].event = "realtime:unsubscribe"
      ]_vars

\* C23, amended: unsubscribe(name) of an unregistered name sends nothing and
\* changes nothing; of a registered name it writes one realtime:unsubscribe
\* frame for the name if the held transport is open and none otherwise, and
\* in both cases removes the channel from the registry, drops its bindings
\* and pending self identity and clears its presence state; frames for the
\* name then invoke no callback of the channel.
C23_Unsubscribe ==
    [][ /\ (act'.name = "unsubscribe") =>
              IF chanInst[Room] = 0
              THEN act'.sent = <<>> /\ UNCHANGED ProgramVars
              ELSE /\ act'.sent =
                        IF ws # 0 /\ sock[ws] = "OPEN"
                        THEN << Frame(ws, "realtime:unsubscribe", Room, FALSE) >>
                        ELSE <<>>
                   /\ Unregistered(Room)
                   /\ UNCHANGED <<state, ws, sock, reconnectTimer, activityTimer, socketId>>
        /\ NoOldCallbacks
      ]_vars

\* unsubscribe of the registered presence channel on a connected client: the
\* frame is written and the channel is gone.
C23_Witness ==
    /\ act.name = "unsubscribe"
    /\ act.sent = << Frame(ws, "realtime:unsubscribe", Room, FALSE) >>
    /\ chanInst[Room] = 0
    /\ bindings[Room] = NoBindings
    /\ presence[Room] = EmptyPresence
    /\ state = "connected"

----------------------------------------------------------------------------
\* Discarded transports, under SpecConn.

\* C36: while the state is connected a transport is held and it is not a
\* closed one; and the close callback of a transport that is not the held one
\* leaves the held transport, the state, the attempt counter and the
\* reconnect timer as they are.
C36_StaleCloseIgnored ==
    /\ [](state = "connected" => (ws # 0 /\ sock[ws] \in {"OPEN", "CLOSING"}))
    /\ [][ \A t \in Sockets :
              ( /\ act'.name = "onclose"
                /\ sock[t] # "NONE" /\ sock'[t] = "NONE"
                /\ ws # 0 /\ t # ws )
              => UNCHANGED <<ws, state, reconnectAttempts, reconnectTimer>>
          ]_vars

\* C35: in state connecting a transport is held or the reconnect timer is
\* pending.
C35_ConnectingNotStuck ==
    state = "connecting" => (ws # 0 \/ reconnectTimer.on)

\* The changes of the connection state that the state machine has.
Transitions ==
    {<<"initialized", "connecting">>, <<"connecting", "connected">>,
     <<"connected", "connecting">>, <<"connecting", "unavailable">>,
     <<"disconnected", "connecting">>, <<"unavailable", "connecting">>}
    \cup {<<s, "disconnected">> : s \in ConnectionStates \ {"disconnected"}}

\* C39: every change of the connection state that a step notifies is one of
\* Transitions, and a change out of disconnected or unavailable happens only
\* in a connect() or disconnect() call of the application, to connecting
\* only in connect().
C39_StateTransitions ==
    [][ \A i \in 1..Len(act'.changes) :
            /\ act'.changes[i] \in Transitions
            /\ act'.changes[i][1] \in {"disconnected", "unavailable"}
                  => /\ act'.name \in {"connect", "disconnect"}
                     /\ act'.changes[i][2] = "connecting" => act'.name = "connect"
      ]_vars

----------------------------------------------------------------------------
\* Outbound frames, under SpecTrigger.

\* C31: every frame a step writes is written to the transport that was held
\* and open when the step began; and a realtime:unsubscribe frame or a
\* client event is written only in the unsubscribe or trigger call that
\* passes it to send, never in a later step.
C31_SendOnlyWhenOpen ==
    [][ \A i \in 1..Len(act'.sent) :
            /\ ws # 0
            /\ sock[ws] = "OPEN"
            /\ act'.sent[i].sock = ws
            /\ act'.sent[i].event = "realtime:unsubscribe" => act'.name = "unsubscribe"
            /\ act'.sent[i].event = "client-x" => act'.name = "trigger"
      ]_vars

\* A trigger that passed every check and reached the forwarding binding
\* with no open transport held: the frame is dropped.
C31_Witness ==
    /\ act.name = "trigger"
    /\ act.call = <<Orders, <<"client-", "x">> >>
    /\ act.threw = ""
    /\ Len(act.invoked) = 1
    /\ act.sent = <<>>
    /\ (ws = 0 \/ sock[ws] # "OPEN")

\* C37: a channel reports subscribed only while the connection state is
\* connected; and a client.trigger that returns normally is made in state
\* connected.
C37_SubscribedOnlyWhileConnected ==
    /\ [](\A n \in ChannelNames : subscribed[n] => state = "connected")
    /\ [][ (act'.name = "trigger" /\ act'.threw = "") => state = "connected" ]_vars

----------------------------------------------------------------------------
\* Auth calls that outlive their connection, under SpecSelf.

\* C38: when an auth call settles that was made for a connection identifier
\* other than the current one, no realtime:subscribe frame is written and no
\* pending self identity is stored.
C38_AuthTokenOnItsConnection ==
    [][ (act'.name = "authSettles" /\ act'.settled[1].sid # socketId) =>
            /\ SubscribeFrames(act') = {}
            /\ pendingPresenceSelf' = pendingPresenceSelf
      ]_vars

----------------------------------------------------------------------------
\* The status of an authentication error, under SpecAuth.

\* C34: a subscription error of type AuthError carries the status of the
\* gateway's response when it is raised for a rejected auth call, and 403
\* when it is raised for a missing endpoint, a missing connection id or a
\* missing or invalid channel_data.
C34_AuthErrorStatus ==
    [][ \A i \in 1..Len(act'.errors) :
            act'.errors[i].type = "AuthError" =>
                act'.errors[i].status =
                    IF act'.name = "authSettles" /\ ~act'.settled[2].ok
                    THEN act'.settled[2].status
                    ELSE ClientSideStatus
      ]_vars

----------------------------------------------------------------------------
\* Subscription errors of a presence channel, under SpecSelf.

\* The subscription errors a step raised on the registered instance of n.
ErrorsOn(a, n) ==
    {i \in 1..Len(a.errors) : a.errors[i].channel = n /\ a.errors[i].inst = chanInst[n]}

\* C33: a step that raises a subscription error on the registered presence
\* channel, for an error frame of the server or for a failed authentication,
\* leaves it not subscribed with no member id, no member, count 0, no self
\* identity and no pending self identity.
C33_ErrorClearsPresence ==
    [][ (chanInst[Room] # 0 /\ chanInst'[Room] = chanInst[Room] /\ ErrorsOn(act', Room) # {}) =>
            /\ ~subscribed'[Room]
            /\ presence'[Room] = EmptyPresence
            /\ pendingPresenceSelf'[Room] = NoSelf
      ]_vars

----------------------------------------------------------------------------
\* Client events triggered on a channel object, under SpecChannelTrigger.

\* C32: channel.trigger(event, data) on a registered channel throws and
\* writes nothing when the event is not prefixed client- or the channel is
\* public; otherwise it does not throw, confirmed or not, and with the held
\* transport open writes exactly one frame with the event and the channel
\* name; on a channel object that unsubscribe discarded it writes nothing.
C32_ChannelTrigger ==
    [][ /\ (act'.name = "channelTrigger") =>
              LET n == act'.call[1]
                  e == act'.call[2]
              IN  IF e[1] # "client-" \/ n[1] = ""
                  THEN act'.threw # "" /\ act'.sent = <<>>
                  ELSE /\ act'.threw = ""
                       /\ (ws # 0 /\ sock[ws] = "OPEN") =>
                              act'.sent = << Frame(ws, e[1] \o e[2], n, FALSE) >>
        /\ (act'.name = "staleTrigger") => act'.sent = <<>>
      ]_vars

====
